---- MODULE Spec2Model ----
(***************************************************************************)
(* Storage-state persistence of the proxy browser launcher.                *)
(*                                                                         *)
(* Two versions of the launcher are modelled side by side:                 *)
(*   variant = "file"  src/index.js: every timer tick and the shutdown     *)
(*                     handler call context.storageState({ path }), which  *)
(*                     captures the session and writes the file itself;    *)
(*   variant = "mem"   src/unnamed/part_000 (lines 57-206): every tick     *)
(*                     stores the capture in cachedStorageState, and the   *)
(*                     cache is written with writeFileSync at shutdown and *)
(*                     on the browser's 'disconnected' event.              *)
(*                                                                         *)
(* The first, single-browser script of part_000 (lines 1-55) has no timer   *)
(* and is not modelled.                                                    *)
(*                                                                         *)
(* One behaviour is a sequence of runs of the process against the same     *)
(* working directory (fs persists from one run to the next).               *)
(*                                                                         *)
(* Environment:                                                            *)
(*  - a storageState() call settles (resolves or rejects) or hangs; it can *)
(*    resolve only while the browser is connected;                         *)
(*  - storageState({ path }) writes the file with a truncating,            *)
(*    non-atomic write after the capture: the file is incomplete from the  *)
(*    moment the write starts until it ends;                               *)
(*  - writeFileSync runs to completion inside one handler and succeeds;    *)
(*  - a snapshot is an opaque blob, identified by the ordinal of the       *)
(*    capture that produced it (0: a snapshot left by an earlier session). *)
(***************************************************************************)
EXTENDS Integers, Sequences, FiniteSets, TLC

\* Total number of storageState() calls over a behaviour.
MaxCaptures == 2
\* Number of successive runs of the process.
MaxRuns == 2

VARIABLES
    variant,        \* "file" | "mem": which version of the launcher runs
    run,            \* ordinal of the current run of the process
    token,          \* args[0]: the positional launch token ("" when absent)
    withStorage,    \* process.argv.includes('--with-storage')
    fs,             \* the working directory: file name -> contents
    pc,             \* "start" | "goto" | "running" | "failed" | "exited"
    ctx,            \* storage state the browser context was created with
    browser,        \* "none" | "open" | "closed"
    handlers,       \* SIGINT/SIGTERM and 'disconnected' handlers registered
    timerActive,    \* saveInterval is scheduled
    calls,          \* storageState() calls in flight, in start order
    nextId,         \* number of storageState() calls started so far
    cache,          \* cachedStorageState (0: null)
    closePending,   \* handleShutdown invocations awaiting browser.close()
    \* observation of the current run
    fileAtStart,    \* contents of the run's snapshot file when the run began
    probes,         \* reads/probes of the snapshot file during startup
    loadDiag,       \* diagnostics printed by the load step
    mainErr,        \* main() rejected (printed by main().catch)
    timerStarted,   \* setInterval has been called
    fileWrites,     \* writes of the snapshot file started
    spanWrites,     \* those started since handleShutdown first started
    shutdowns,      \* invocations of handleShutdown
    shutdownWrites, \* writes of the snapshot file started by handleShutdown
    closeCalls,     \* calls of browser.close()
    lastOk,         \* id of the capture that succeeded last (0: none)
    finalOks,       \* final captures of handleShutdown that succeeded
    sigSeen,        \* a SIGINT/SIGTERM has been delivered
    exitVia,        \* "none" | "shutdown" | "disconnected" | "signal"
    carried,        \* id of the snapshot the previous run's shutdown sequence
                    \* left in the file this run uses (0: none)
    last            \* label of the step taken last

progVars == <<variant, run, token, withStorage, fs, pc, ctx, browser, handlers,
              timerActive, calls, nextId, cache, closePending>>
obsVars == <<fileAtStart, probes, loadDiag, mainErr, timerStarted, fileWrites,
             spanWrites, shutdowns, shutdownWrites, closeCalls, lastOk,
             finalOks, sigSeen, exitVia, carried, last>>
vars == <<progVars, obsVars>>

----------------------------------------------------------------------------
\* File contents and storage states.

Absent == [kind |-> "absent", id |-> 0]
Malformed == [kind |-> "malformed", id |-> 0]
Partial == [kind |-> "partial", id |-> 0]
Snap(i) == [kind |-> "snap", id |-> i]
\* contextOptions.storageState left unset / the context's default storage
Empty == [kind |-> "empty", id |-> 0]
\* contextOptions.storageState = storageFileName (index.js)
PathOption == [kind |-> "path", id |-> 0]
NoContext == [kind |-> "none", id |-> 0]

----------------------------------------------------------------------------
\* Launch arguments.

Tokens == {"", "chrome", "chromium", "Firefox", "opera"}

toLowerCase(t) == IF t = "Firefox" THEN "firefox" ELSE t

\* (args[0] || 'safari').toLowerCase()
BrowserTypeOf(t) == toLowerCase(IF t = "" THEN "safari" ELSE t)

\* the switch over browserType
EngineOf(bt) ==
    CASE bt \in {"chrome", "chromium"} -> "chromium"
      [] bt = "firefox" -> "firefox"
      [] OTHER -> "webkit"

Engines == {"chromium", "firefox", "webkit"}

\* `storage-state-${browserType}.json`
StorageFileNameOf(bt) == "storage-state-" \o bt \o ".json"

BrowserTypes == {BrowserTypeOf(t) : t \in Tokens}
FileNames == {StorageFileNameOf(bt) : bt \in BrowserTypes}

browserType == BrowserTypeOf(token)
browserEngine == EngineOf(browserType)
storageFileName == StorageFileNameOf(browserType)

----------------------------------------------------------------------------
\* Startup: main().

\* index.js: if (withStorage && existsSync(storageFileName))
\*               contextOptions.storageState = storageFileName
LoadOption_file(ws, content) ==
    IF ws /\ content.kind # "absent" THEN PathOption ELSE Empty

\* part_000: if (withStorage) { try { JSON.parse(readFileSync(...)) } catch ... }
LoadOption_mem(ws, content) ==
    IF ws /\ content.kind = "snap" THEN content ELSE Empty

\* console.error('Failed to load storage state:', ...) unless error.code is ENOENT
LoadDiagnostics_mem(ws, content) ==
    IF ws /\ content.kind \notin {"snap", "absent"} THEN 1 ELSE 0

\* A launcher that never hands a stored snapshot to the new context.
LoadOption_Ignore(v, ws, content) == Empty

LoadOption(v, ws, content) ==
    IF v = "file" THEN LoadOption_file(ws, content) ELSE LoadOption_mem(ws, content)

LoadDiagnostics(v, ws, content) ==
    IF v = "file" THEN 0 ELSE LoadDiagnostics_mem(ws, content)

\* existsSync / readFileSync are reached only behind withStorage
LoadProbes(ws) == IF ws THEN 1 ELSE 0

\* browser.newContext({ storageState: <path> }) reads and parses the file and
\* rejects when it does not hold a JSON document.
NewContextThrows(opt, content) == opt.kind = "path" /\ content.kind # "snap"

NewContextStorage(opt, content) == IF opt.kind = "path" THEN content ELSE opt

NewContextProbes(opt) == IF opt.kind = "path" THEN 1 ELSE 0

\* The state of a process that has just been started with token t and flag ws.
RunStart(t, ws, dir) ==
    /\ token' = t
    /\ withStorage' = ws
    /\ pc' = "start"
    /\ ctx' = NoContext
    /\ browser' = "none"
    /\ handlers' = FALSE
    /\ timerActive' = FALSE
    /\ calls' = <<>>
    /\ cache' = 0
    /\ closePending' = 0
    /\ fileAtStart' = dir[StorageFileNameOf(BrowserTypeOf(t))]
    /\ probes' = 0
    /\ loadDiag' = 0
    /\ mainErr' = FALSE
    /\ timerStarted' = FALSE
    /\ fileWrites' = 0
    /\ spanWrites' = 0
    /\ shutdowns' = 0
    /\ shutdownWrites' = 0
    /\ closeCalls' = 0
    /\ lastOk' = 0
    /\ finalOks' = 0
    /\ sigSeen' = FALSE
    /\ exitVia' = "none"
    /\ last' = "launch"

Init ==
    /\ variant \in {"file", "mem"}
    /\ run = 1
    /\ token \in Tokens
    /\ withStorage \in BOOLEAN
    /\ \E c0 \in {Absent, Malformed, Snap(0)} :
          fs = [n \in FileNames |->
                  IF n = StorageFileNameOf(BrowserTypeOf(token)) THEN c0 ELSE Absent]
    /\ pc = "start"
    /\ ctx = NoContext
    /\ browser = "none"
    /\ handlers = FALSE
    /\ timerActive = FALSE
    /\ calls = <<>>
    /\ nextId = 0
    /\ cache = 0
    /\ closePending = 0
    /\ fileAtStart = fs[StorageFileNameOf(BrowserTypeOf(token))]
    /\ probes = 0
    /\ loadDiag = 0
    /\ mainErr = FALSE
    /\ timerStarted = FALSE
    /\ fileWrites = 0
    /\ spanWrites = 0
    /\ shutdowns = 0
    /\ shutdownWrites = 0
    /\ closeCalls = 0
    /\ lastOk = 0
    /\ finalOks = 0
    /\ sigSeen = FALSE
    /\ exitVia = "none"
    /\ carried = 0
    /\ last = "launch"

\* main() up to and including context.newPage(): launch, load step, newContext.
StartSession ==
    /\ pc = "start"
    /\ LET content == fs[storageFileName]
           opt == LoadOption(variant, withStorage, content)
       IN  /\ probes' = probes + LoadProbes(withStorage) + NewContextProbes(opt)
           /\ loadDiag' = loadDiag + LoadDiagnostics(variant, withStorage, content)
           /\ browser' = "open"
           /\ IF NewContextThrows(opt, content)
                 THEN /\ pc' = "failed"
                      /\ mainErr' = TRUE
                      /\ ctx' = NoContext
                      /\ last' = "startFailed"
                 ELSE /\ pc' = "goto"
                      /\ mainErr' = mainErr
                      /\ ctx' = NewContextStorage(opt, content)
                      /\ last' = "started"
    /\ UNCHANGED <<variant, run, carried, token, withStorage, fs, handlers, timerActive,
                   calls, nextId, cache, closePending>>
    /\ UNCHANGED <<fileAtStart, timerStarted, fileWrites, spanWrites, shutdowns,
                   shutdownWrites, closeCalls, lastOk, finalOks, sigSeen,
                   exitVia>>

\* A launcher that sets storage management up whatever the flag says.
StorageManagementEnabled_Always(ws) == TRUE

\* if (withStorage) setupStorageManagement(browser, context, storageFileName):
\* only then is the timer started and are the 'disconnected', SIGINT and
\* SIGTERM handlers registered.
StorageManagementEnabled(ws) == ws

\* page.goto() resolves; main() runs to its end.
GotoDone ==
    /\ pc = "goto"
    /\ browser = "open"
    /\ pc' = "running"
    /\ handlers' = StorageManagementEnabled(withStorage)
    /\ timerActive' = StorageManagementEnabled(withStorage)
    /\ timerStarted' = StorageManagementEnabled(withStorage)
    /\ cache' = 0
    /\ last' = "setup"
    /\ UNCHANGED <<variant, run, carried, token, withStorage, fs, ctx, browser, calls,
                   nextId, closePending>>
    /\ UNCHANGED <<fileAtStart, probes, loadDiag, mainErr, fileWrites,
                   spanWrites, shutdowns, shutdownWrites, closeCalls, lastOk,
                   finalOks, sigSeen, exitVia>>

\* page.goto() rejects: main() rejects and main().catch(console.error) prints it.
GotoFails ==
    /\ pc = "goto"
    /\ pc' = "failed"
    /\ mainErr' = TRUE
    /\ last' = "gotoFailed"
    /\ UNCHANGED <<variant, run, carried, token, withStorage, fs, ctx, browser, handlers,
                   timerActive, calls, nextId, cache, closePending>>
    /\ UNCHANGED <<fileAtStart, probes, loadDiag, timerStarted, fileWrites,
                   spanWrites, shutdowns, shutdownWrites, closeCalls, lastOk,
                   finalOks, sigSeen, exitVia>>

----------------------------------------------------------------------------
\* setupStorageManagement: the timer, the handlers and the calls they make.

Remove(s, i) == SubSeq(s, 1, i - 1) \o SubSeq(s, i + 1, Len(s))

\* A storageState() call that has just been made.
NewCall(n, source, h) == [id |-> n, src |-> source, st |-> "pending", hang |-> h]

\* A writeStorageToFile without its if: a null cache is serialized too.
WriteStorageToFile_NoGuard(c, old) == IF c # 0 THEN Snap(c) ELSE Malformed

\* writeStorageToFile: if (cachedStorageState) writeFileSync(storageFileName, ...)
WriteStorageToFile(c, old) == IF c # 0 THEN Snap(c) ELSE old

\* n writes, counted only once handleShutdown has started
SinceShutdown(n) == IF shutdowns > 0 THEN n ELSE 0

\* the number of writes writeStorageToFile makes
WritesOf(c) == IF c # 0 THEN 1 ELSE 0

\* The file after the write of call i ends. While another storageState({ path })
\* is still writing the same file, the bytes of the two writes interleave.
WrittenContents(i) ==
    IF \E j \in DOMAIN calls : j # i /\ calls[j].st = "writing"
       THEN {Snap(calls[i].id), Partial}
       ELSE {Snap(calls[i].id)}

\* process.exit(0), or the default action of a signal: the process is gone.
ProcessExit(via) ==
    /\ pc' = "exited"
    /\ exitVia' = via
    /\ browser' = "closed"
    /\ handlers' = FALSE
    /\ timerActive' = FALSE
    /\ calls' = <<>>
    /\ cache' = 0
    /\ closePending' = 0

\* The interval fires: the callback calls context.storageState(...).
Tick ==
    /\ pc = "running"
    /\ timerActive
    /\ nextId < MaxCaptures
    /\ \E h \in BOOLEAN : calls' = Append(calls, NewCall(nextId + 1, "tick", h))
    /\ nextId' = nextId + 1
    /\ last' = "tick"
    /\ UNCHANGED <<variant, run, carried, token, withStorage, fs, pc, ctx, browser,
                   handlers, timerActive, cache, closePending>>
    /\ UNCHANGED <<fileAtStart, probes, loadDiag, mainErr, timerStarted,
                   fileWrites, spanWrites, shutdowns, shutdownWrites,
                   closeCalls, lastOk, finalOks, sigSeen, exitVia>>

\* A timer callback whose failed capture overwrites the cache.
TickCatch_ClearsCache ==
    /\ cache' = 0
    /\ UNCHANGED <<fs, pc, browser, handlers, timerActive, closePending>>
    /\ UNCHANGED <<fileWrites, spanWrites, closeCalls, exitVia>>

\* catch (error) { } of the timer callback: the rejection is dropped.
TickCatch ==
    /\ UNCHANGED <<fs, pc, browser, handlers, timerActive, cache, closePending>>
    /\ UNCHANGED <<fileWrites, spanWrites, closeCalls, exitVia>>

\* A tick's storageState() rejects.
TickRejected(i) ==
    /\ calls[i].src = "tick"
    /\ calls[i].st = "pending"
    /\ ~calls[i].hang
    /\ calls' = Remove(calls, i)
    /\ TickCatch
    /\ last' = "tickFailed"
    /\ UNCHANGED <<variant, run, carried, token, withStorage, ctx, nextId>>
    /\ UNCHANGED <<fileAtStart, probes, loadDiag, mainErr, timerStarted,
                   shutdowns, shutdownWrites, lastOk, finalOks, sigSeen>>

\* part_000: cachedStorageState = await context.storageState() in the callback.
TickCaptured_mem(i) ==
    /\ variant = "mem"
    /\ calls[i].src = "tick"
    /\ calls[i].st = "pending"
    /\ ~calls[i].hang
    /\ browser = "open"
    /\ cache' = calls[i].id
    /\ lastOk' = calls[i].id
    /\ finalOks' = finalOks
    /\ calls' = Remove(calls, i)
    /\ last' = "tickOk"
    /\ UNCHANGED <<variant, run, carried, token, withStorage, fs, pc, ctx, browser,
                   handlers, timerActive, nextId, closePending>>
    /\ UNCHANGED <<fileAtStart, probes, loadDiag, mainErr, timerStarted,
                   fileWrites, spanWrites, shutdowns, shutdownWrites,
                   closeCalls, sigSeen, exitVia>>

\* index.js: storageState({ path }) of a tick has the capture and starts writing.
TickCaptured_file(i) ==
    /\ variant = "file"
    /\ calls[i].src = "tick"
    /\ calls[i].st = "pending"
    /\ ~calls[i].hang
    /\ browser = "open"
    /\ calls' = [calls EXCEPT ![i].st = "writing"]
    /\ fs' = [fs EXCEPT ![storageFileName] = Partial]
    /\ fileWrites' = fileWrites + 1
    /\ spanWrites' = spanWrites + SinceShutdown(1)
    /\ last' = "tickWriting"
    /\ UNCHANGED <<variant, run, carried, token, withStorage, pc, ctx, browser, handlers,
                   timerActive, nextId, cache, closePending>>
    /\ UNCHANGED <<fileAtStart, probes, loadDiag, mainErr, timerStarted,
                   shutdowns, shutdownWrites, closeCalls, lastOk, finalOks,
                   sigSeen, exitVia>>

\* index.js: storageState({ path }) of a tick resolves, its write has ended.
TickWritten_file(i) ==
    /\ variant = "file"
    /\ calls[i].src = "tick"
    /\ calls[i].st = "writing"
    /\ \E c \in WrittenContents(i) : fs' = [fs EXCEPT ![storageFileName] = c]
    /\ lastOk' = calls[i].id
    /\ finalOks' = finalOks
    /\ calls' = Remove(calls, i)
    /\ last' = "tickOk"
    /\ UNCHANGED <<variant, run, carried, token, withStorage, pc, ctx, browser, handlers,
                   timerActive, nextId, cache, closePending>>
    /\ UNCHANGED <<fileAtStart, probes, loadDiag, mainErr, timerStarted,
                   fileWrites, spanWrites, shutdowns, shutdownWrites,
                   closeCalls, sigSeen, exitVia>>

\* SIGINT or SIGTERM with the handlers registered: handleShutdown starts.
\* Both signals run the same closure; it clears the interval and awaits a
\* final storageState(...). Nothing records that a shutdown is under way.
HandleShutdown ==
    /\ pc = "running"
    /\ handlers
    /\ nextId < MaxCaptures
    /\ timerActive' = FALSE
    /\ \E h \in BOOLEAN : calls' = Append(calls, NewCall(nextId + 1, "sig", h))
    /\ nextId' = nextId + 1
    /\ shutdowns' = shutdowns + 1
    /\ sigSeen' = TRUE
    /\ last' = "signal"
    /\ UNCHANGED <<variant, run, carried, token, withStorage, fs, pc, ctx, browser,
                   handlers, cache, closePending>>
    /\ UNCHANGED <<fileAtStart, probes, loadDiag, mainErr, timerStarted,
                   fileWrites, spanWrites, shutdownWrites, closeCalls, lastOk,
                   finalOks, exitVia>>

\* SIGINT or SIGTERM with no handler registered: the default action ends the
\* process at once.
SignalDefault ==
    /\ pc \in {"start", "goto", "running", "failed"}
    /\ ~handlers
    /\ ProcessExit("signal")
    /\ sigSeen' = TRUE
    /\ last' = "killed"
    /\ UNCHANGED <<variant, run, carried, token, withStorage, fs, ctx, nextId>>
    /\ UNCHANGED <<fileAtStart, probes, loadDiag, mainErr, timerStarted,
                   fileWrites, spanWrites, shutdowns, shutdownWrites,
                   closeCalls, lastOk, finalOks>>

\* part_000: the final capture resolves; the handler caches it, writes the
\* cache and calls browser.close().
ShutdownCaptured_mem(i) ==
    /\ variant = "mem"
    /\ calls[i].src = "sig"
    /\ calls[i].st = "pending"
    /\ ~calls[i].hang
    /\ browser = "open"
    /\ cache' = calls[i].id
    /\ lastOk' = calls[i].id
    /\ finalOks' = finalOks + 1
    /\ fs' = [fs EXCEPT ![storageFileName] = WriteStorageToFile(cache', @)]
    /\ fileWrites' = fileWrites + WritesOf(cache')
    /\ spanWrites' = spanWrites + SinceShutdown(WritesOf(cache'))
    /\ shutdownWrites' = shutdownWrites + WritesOf(cache')
    /\ closeCalls' = closeCalls + 1
    /\ closePending' = closePending + 1
    /\ calls' = Remove(calls, i)
    /\ last' = "finalOk"
    /\ UNCHANGED <<variant, run, carried, token, withStorage, pc, ctx, browser, handlers,
                   timerActive, nextId>>
    /\ UNCHANGED <<fileAtStart, probes, loadDiag, mainErr, timerStarted,
                   shutdowns, sigSeen, exitVia>>

\* part_000: the final capture rejects; the catch block writes whatever is
\* cached, and the handler goes on to browser.close().
ShutdownRejected_mem(i) ==
    /\ variant = "mem"
    /\ calls[i].src = "sig"
    /\ calls[i].st = "pending"
    /\ ~calls[i].hang
    /\ fs' = [fs EXCEPT ![storageFileName] = WriteStorageToFile(cache, @)]
    /\ fileWrites' = fileWrites + WritesOf(cache)
    /\ spanWrites' = spanWrites + SinceShutdown(WritesOf(cache))
    /\ shutdownWrites' = shutdownWrites + WritesOf(cache)
    /\ closeCalls' = closeCalls + 1
    /\ closePending' = closePending + 1
    /\ calls' = Remove(calls, i)
    /\ last' = "finalFailed"
    /\ UNCHANGED <<variant, run, carried, token, withStorage, pc, ctx, browser, handlers,
                   timerActive, nextId, cache>>
    /\ UNCHANGED <<fileAtStart, probes, loadDiag, mainErr, timerStarted,
                   shutdowns, lastOk, finalOks, sigSeen, exitVia>>

\* part_000: browser.close() settles before the 'disconnected' handler has run
\* (it rejects, and the rejection is ignored); the handler calls process.exit(0).
CloseSettles ==
    /\ variant = "mem"
    /\ pc = "running"
    /\ closePending > 0
    /\ ProcessExit("shutdown")
    /\ last' = "closeSettled"
    /\ UNCHANGED <<variant, run, carried, token, withStorage, fs, ctx, nextId>>
    /\ UNCHANGED <<fileAtStart, probes, loadDiag, mainErr, timerStarted,
                   fileWrites, spanWrites, shutdowns, shutdownWrites,
                   closeCalls, lastOk, finalOks, sigSeen>>

\* index.js: the final storageState({ path }) has the capture and starts writing.
ShutdownCaptured_file(i) ==
    /\ variant = "file"
    /\ calls[i].src = "sig"
    /\ calls[i].st = "pending"
    /\ ~calls[i].hang
    /\ browser = "open"
    /\ calls' = [calls EXCEPT ![i].st = "writing"]
    /\ fs' = [fs EXCEPT ![storageFileName] = Partial]
    /\ fileWrites' = fileWrites + 1
    /\ spanWrites' = spanWrites + SinceShutdown(1)
    /\ shutdownWrites' = shutdownWrites + 1
    /\ last' = "finalWriting"
    /\ UNCHANGED <<variant, run, carried, token, withStorage, pc, ctx, browser, handlers,
                   timerActive, nextId, cache, closePending>>
    /\ UNCHANGED <<fileAtStart, probes, loadDiag, mainErr, timerStarted,
                   shutdowns, closeCalls, lastOk, finalOks, sigSeen, exitVia>>

\* index.js: the final storageState({ path }) resolves; the handler logs and
\* calls process.exit(0).
ShutdownWritten_file(i) ==
    /\ variant = "file"
    /\ calls[i].src = "sig"
    /\ calls[i].st = "writing"
    /\ \E c \in WrittenContents(i) : fs' = [fs EXCEPT ![storageFileName] = c]
    /\ lastOk' = calls[i].id
    /\ finalOks' = finalOks + 1
    /\ ProcessExit("shutdown")
    /\ last' = "finalOk"
    /\ UNCHANGED <<variant, run, carried, token, withStorage, ctx, nextId>>
    /\ UNCHANGED <<fileAtStart, probes, loadDiag, mainErr, timerStarted,
                   fileWrites, spanWrites, shutdowns, shutdownWrites,
                   closeCalls, sigSeen>>

\* index.js: the final storageState({ path }) rejects; the catch block is
\* empty and the handler calls process.exit(0).
ShutdownRejected_file(i) ==
    /\ variant = "file"
    /\ calls[i].src = "sig"
    /\ calls[i].st = "pending"
    /\ ~calls[i].hang
    /\ ProcessExit("shutdown")
    /\ last' = "finalFailed"
    /\ UNCHANGED <<variant, run, carried, token, withStorage, fs, ctx, nextId>>
    /\ UNCHANGED <<fileAtStart, probes, loadDiag, mainErr, timerStarted,
                   fileWrites, spanWrites, shutdowns, shutdownWrites,
                   closeCalls, lastOk, finalOks, sigSeen>>

\* The browser goes away (the user closes it, it crashes, or browser.close()
\* takes effect) while no 'disconnected' handler is registered.
Disconnect_unhandled ==
    /\ pc \in {"goto", "running", "failed"}
    /\ browser = "open"
    /\ ~handlers
    /\ browser' = "closed"
    /\ last' = "disconnected"
    /\ UNCHANGED <<variant, run, carried, token, withStorage, fs, pc, ctx, handlers,
                   timerActive, calls, nextId, cache, closePending>>
    /\ UNCHANGED <<fileAtStart, probes, loadDiag, mainErr, timerStarted,
                   fileWrites, spanWrites, shutdowns, shutdownWrites,
                   closeCalls, lastOk, finalOks, sigSeen, exitVia>>

\* A 'disconnected' handler that leaves the interval scheduled.
Disconnected_file_NoClear ==
    /\ variant = "file"
    /\ browser = "open"
    /\ handlers
    /\ browser' = "closed"
    /\ last' = "disconnected"
    /\ UNCHANGED <<variant, run, carried, token, withStorage, fs, pc, ctx, handlers,
                   timerActive, calls, nextId, cache, closePending>>
    /\ UNCHANGED <<fileAtStart, probes, loadDiag, mainErr, timerStarted,
                   fileWrites, spanWrites, shutdowns, shutdownWrites,
                   closeCalls, lastOk, finalOks, sigSeen, exitVia>>

\* index.js: browser.on('disconnected', () => { clearInterval(saveInterval) })
Disconnected_file ==
    /\ variant = "file"
    /\ browser = "open"
    /\ handlers
    /\ browser' = "closed"
    /\ timerActive' = FALSE
    /\ last' = "disconnected"
    /\ UNCHANGED <<variant, run, carried, token, withStorage, fs, pc, ctx, handlers,
                   calls, nextId, cache, closePending>>
    /\ UNCHANGED <<fileAtStart, probes, loadDiag, mainErr, timerStarted,
                   fileWrites, spanWrites, shutdowns, shutdownWrites,
                   closeCalls, lastOk, finalOks, sigSeen, exitVia>>

\* part_000: the 'disconnected' handler clears the interval, writes the cache
\* and calls process.exit(0).
Disconnected_mem ==
    /\ variant = "mem"
    /\ browser = "open"
    /\ handlers
    /\ fs' = [fs EXCEPT ![storageFileName] = WriteStorageToFile(cache, @)]
    /\ fileWrites' = fileWrites + WritesOf(cache)
    /\ spanWrites' = spanWrites + SinceShutdown(WritesOf(cache))
    /\ ProcessExit("disconnected")
    /\ last' = "disconnected"
    /\ UNCHANGED <<variant, run, carried, token, withStorage, ctx, nextId>>
    /\ UNCHANGED <<fileAtStart, probes, loadDiag, mainErr, timerStarted,
                   shutdowns, shutdownWrites, closeCalls, lastOk, finalOks,
                   sigSeen>>

\* The run that has ended went through the shutdown sequence, which wrote the
\* snapshot file, and the file holds a complete snapshot of that run.
PersistedAtShutdown ==
    /\ pc = "exited"
    /\ withStorage
    /\ exitVia = "shutdown"
    /\ shutdownWrites > 0
    /\ fs[storageFileName].kind = "snap"
    /\ fs[storageFileName] # fileAtStart

\* The launcher is started again in the same directory.
Restart ==
    /\ pc = "exited"
    /\ run < MaxRuns
    /\ run' = run + 1
    /\ \E t \in Tokens, ws \in BOOLEAN :
          /\ RunStart(t, ws, fs)
          /\ carried' = IF PersistedAtShutdown /\ t = token /\ ws
                            THEN fs[storageFileName].id
                            ELSE 0
    /\ UNCHANGED <<variant, fs, nextId>>

Next ==
    \/ StartSession
    \/ GotoDone
    \/ GotoFails
    \/ Tick
    \/ HandleShutdown
    \/ SignalDefault
    \/ \E i \in DOMAIN calls : TickRejected(i)
    \/ \E i \in DOMAIN calls : TickCaptured_mem(i)
    \/ \E i \in DOMAIN calls : TickCaptured_file(i)
    \/ \E i \in DOMAIN calls : TickWritten_file(i)
    \/ \E i \in DOMAIN calls : ShutdownCaptured_mem(i)
    \/ \E i \in DOMAIN calls : ShutdownRejected_mem(i)
    \/ \E i \in DOMAIN calls : ShutdownCaptured_file(i)
    \/ \E i \in DOMAIN calls : ShutdownWritten_file(i)
    \/ \E i \in DOMAIN calls : ShutdownRejected_file(i)
    \/ CloseSettles
    \/ Disconnect_unhandled
    \/ Disconnected_file
    \/ Disconnected_mem
    \/ Restart

Spec == Init /\ [][Next]_vars

----------------------------------------------------------------------------
\* Properties.

\* A step of a running shutdown sequence: its final capture settles, its write
\* ends, or its browser.close() settles.
ShutdownProgress ==
    \/ \E i \in DOMAIN calls :
          \/ ShutdownCaptured_mem(i)
          \/ ShutdownRejected_mem(i)
          \/ ShutdownCaptured_file(i)
          \/ ShutdownWritten_file(i)
          \/ ShutdownRejected_file(i)
    \/ CloseSettles

\* C1: the shutdown sequence is idempotent: however many signals are
\* delivered in one run, handleShutdown writes the snapshot file at most once
\* and calls browser.close() at most once.
C1_ShutdownIdempotent == shutdownWrites <= 1 /\ closeCalls <= 1

\* C2: after a signal has started the shutdown sequence the process goes on to
\* exit whatever the final capture does: as long as it has not exited, a step
\* of the shutdown sequence is possible (it never waits on nothing).
C2_ShutdownNeverBlocks ==
    (pc = "running" /\ shutdowns > 0) => ENABLED ShutdownProgress

\* C3: the shutdown sequence cancels the timer before the final capture is
\* attempted, and never exits without having called browser.close().
C3_ShutdownOrder ==
    /\ (\E i \in DOMAIN calls : calls[i].src = "sig") => ~timerActive
    /\ (pc = "exited" /\ exitVia = "shutdown") => (shutdowns >= 1 /\ closeCalls >= 1)

\* C4: with persistence enabled, when the process has exited after a signal
\* and some capture of the run succeeded, the snapshot file holds the capture
\* that succeeded last.
C4_FileIsLatestCapture ==
    (withStorage /\ pc = "exited" /\ sigSeen /\ lastOk # 0)
        => fs[storageFileName] = Snap(lastOk)

\* C5: in the in-memory variant, a final capture that fails makes the handler
\* write the last successfully captured snapshot when there is one and write
\* nothing when there is none; either way it goes on to browser.close(), after
\* which its exit is possible.
C5_FinalFailureFallsBack ==
    /\ [][(variant = "mem" /\ last' = "finalFailed") =>
            /\ cache = lastOk
            /\ cache # 0 =>
                  /\ fs' = [fs EXCEPT ![storageFileName] = Snap(lastOk)]
                  /\ fileWrites' = fileWrites + 1
            /\ cache = 0 => (fs' = fs /\ fileWrites' = fileWrites)
            /\ closeCalls' = closeCalls + 1
            /\ closePending' = closePending + 1
            /\ pc' = "running"]_vars
    /\ [](closePending > 0 => ENABLED CloseSettles)

C5_Witness ==
    /\ variant = "mem"
    /\ last = "finalFailed"
    /\ cache # 0
    /\ fs[storageFileName] = Snap(cache)
    /\ fileAtStart # Snap(cache)
    /\ closePending > 0

\* C6: a periodic capture that fails changes nothing: the process keeps
\* running, the timer stays scheduled as it was, the browser is not closed and
\* the cache and the files are left as they were.
C6_TickFailureSwallowed ==
    [][last' = "tickFailed" =>
          /\ pc' = pc
          /\ timerActive' = timerActive
          /\ handlers' = handlers
          /\ browser' = browser
          /\ closeCalls' = closeCalls
          /\ cache' = cache
          /\ fs' = fs]_vars

C6_Witness ==
    /\ last = "tickFailed"
    /\ pc = "running"
    /\ timerActive
    /\ lastOk # 0
    /\ (variant = "mem" => cache = lastOk)
    /\ (variant = "file" => fs[storageFileName] = Snap(lastOk))

\* C7: with the flag present and a malformed snapshot file, once the load step
\* has run the session exists with empty storage, the load step has printed
\* exactly one diagnostic, and the load step has left the file as it was.
C7_MalformedLoadDegrades ==
    (withStorage /\ fileAtStart = Malformed /\ probes > 0) =>
        /\ ctx = Empty
        /\ loadDiag = 1
        /\ fileWrites = 0 => fs[storageFileName] = fileAtStart

\* C8: launch tokens that select the same engine use the same file name, so
\* the directory never holds two snapshot files of one browser engine.
C8_OneFilePerEngine ==
    \A e \in Engines :
        Cardinality({StorageFileNameOf(bt) : bt \in
                        {b \in BrowserTypes :
                            /\ EngineOf(b) = e
                            /\ fs[StorageFileNameOf(b)].kind = "snap"}}) <= 1

\* C9: without the storage flag the snapshot file is never probed or read, no
\* timer and no handler is ever set up, and the file is never written.
C9_NoFlagNoStorage ==
    ~withStorage =>
        /\ probes = 0
        /\ ~timerStarted
        /\ ~timerActive
        /\ ~handlers
        /\ fileWrites = 0
        /\ fs[storageFileName] = fileAtStart

C9_Witness ==
    /\ ~withStorage
    /\ fileAtStart = Snap(0)
    /\ ctx = Empty
    /\ sigSeen
    /\ pc = "exited"

\* C10: with the flag present and no snapshot file, the session starts with
\* empty storage and no diagnostic, and once a signal has ended the process
\* the file holds a complete snapshot.
C10_FirstRunCreatesFile ==
    (withStorage /\ fileAtStart = Absent /\ ctx # NoContext) =>
        /\ ctx = Empty
        /\ loadDiag = 0
        /\ (pc = "exited" /\ sigSeen) => fs[storageFileName].kind = "snap"

\* C12: once handleShutdown has started, the periodic writer has no write of
\* the snapshot file in flight; in particular a periodic write and a shutdown
\* write are never in flight together.
C12_NoPeriodicWriteAfterShutdown ==
    (pc = "running" /\ shutdowns > 0) =>
        \A i \in DOMAIN calls : calls[i].src = "tick" => calls[i].st # "writing"

\* C13: in every state no snapshot file is a partially written document.
C13_NeverPartial == \A n \in FileNames : fs[n] # Partial

\* C15: with persistence enabled, once the browser context exists a signal
\* never ends the process without handleShutdown having attempted a capture.
C15_SignalAlwaysCaptures ==
    (withStorage /\ ctx # NoContext /\ pc = "exited" /\ sigSeen) => shutdowns >= 1

\* C16: at most one capture started by the timer is in flight.
C16_OnePeriodicCaptureInFlight ==
    Cardinality({i \in DOMAIN calls : calls[i].src = "tick"}) <= 1

\* C17: in the in-memory variant the cache is null or the capture that
\* succeeded last, and every step that changes a file writes that capture,
\* never a null cache, into the run's snapshot file.
C17_OnlyGoodCaptureSerialized ==
    /\ [](variant = "mem" => (cache = 0 \/ (lastOk # 0 /\ cache = lastOk)))
    /\ [][(variant = "mem" /\ fs' # fs) =>
            /\ lastOk' # 0
            /\ fs' = [fs EXCEPT ![storageFileName] = Snap(lastOk')]
            /\ fileWrites' = fileWrites + 1]_vars

C17_Witness ==
    /\ variant = "mem"
    /\ last = "disconnected"
    /\ fileWrites > 0
    /\ lastOk # 0
    /\ fs[storageFileName] = Snap(lastOk)
    /\ fileAtStart # Snap(lastOk)

\* C18: once the browser has disconnected the timer is not scheduled, and the
\* timer callback neither requests a capture nor starts a write afterwards.
C18_NoTickAfterDisconnect ==
    /\ [](browser = "closed" => ~timerActive)
    /\ [][browser = "closed" => last' \notin {"tick", "tickWriting"}]_vars

C18_Witness ==
    /\ variant = "file"
    /\ last = "disconnected"
    /\ pc = "running"
    /\ browser = "closed"
    /\ timerStarted
    /\ ~timerActive
    /\ shutdowns = 0
    /\ nextId < MaxCaptures

\* C14: when a single signal was delivered and its final capture succeeded,
\* the snapshot file has been written exactly once between the start of the
\* shutdown sequence and the exit of the process.
C14_WrittenOnceAtShutdown ==
    (pc = "exited" /\ shutdowns = 1 /\ finalOks = 1) => spanWrites = 1

\* C11: when the previous run, started with the same token and the storage
\* flag, left snapshot S in the file through its shutdown sequence, the session
\* of this run is created with storage state S.
C11_RoundTrip ==
    (carried # 0 /\ probes > 0) => ctx = Snap(carried)

C11_Witness ==
    /\ run > 1
    /\ carried # 0
    /\ pc = "running"
    /\ ctx = Snap(carried)

====
